---- MODULE Spec2Model ----
(***************************************************************************)
(* Model of the two label-sheet programs of the repository:                *)
(*   src/src/App.jsx                                  ("App":  nested grid,*)
(*        FileReader loads, jsPDF render)                                  *)
(*   src/label_sheet_builder_3_x_11_react_preview.jsx ("sheet": flat       *)
(*        cellImages array, object URLs, pdf-lib render, HTML print)       *)
(*                                                                         *)
(* Numbers.  A JavaScript Number is modelled as an exact rational <<n, d>> *)
(* with d > 0 in lowest terms, so a/b is a/b and not a rounded double.     *)
(* Strings that the code searches (mime types, data URLs) are sequences of *)
(* one-character strings, so includes() and toLowerCase() are computed.    *)
(*                                                                         *)
(* Size.  The sheet is bounded to MaxCells cells; Init is the state of an  *)
(* empty 2 x 2 sheet (the state both programs are in after the user has    *)
(* typed rows = 2 and columns = 2 into a freshly constructed 11 x 3 sheet).*)
(***************************************************************************)
EXTENDS Integers, Sequences, FiniteSets, TLC

\* ------------------------------------------------------------------ bounds
MaxCells == 4       \* rows * cols never exceeds this
MaxUrls == 2        \* object URLs ever created by onLocalFileChosen
MaxLoads == 2       \* FileReaders ever created by handleFileChange

\* null, and the null entry of cellImages (item?.file and item?.url are
\* undefined on it)
Null == "null"
NullItem == [file |-> Null, url |-> 0]

\* --------------------------------------------------------- JS Number model
Abs(n) == IF n < 0 THEN -n ELSE n

RECURSIVE GCD(_, _)
GCD(a, b) == IF b = 0 THEN a ELSE GCD(b, a % b)

\* the rational n/d in lowest terms, d > 0
Q(n, d) ==
  <<((IF d < 0 THEN -1 ELSE 1) * n) \div GCD(Abs(n), Abs(d)),
    Abs(d) \div GCD(Abs(n), Abs(d))>>

N(i) == <<i, 1>>
QAdd(a, b) == Q(a[1] * b[2] + b[1] * a[2], a[2] * b[2])
QNeg(a) == <<-a[1], a[2]>>
QSub(a, b) == Q(a[1] * b[2] - b[1] * a[2], a[2] * b[2])
QMul(a, b) == Q(a[1] * b[1], a[2] * b[2])
QDiv(a, b) == Q(a[1] * b[2], a[2] * b[1])
QLe(a, b) == a[1] * b[2] <= b[1] * a[2]
QMin(a, b) == IF QLe(a, b) THEN a ELSE b
QPos(a) == a[1] > 0

\* ------------------------------------------------------------ JS strings
UpperCase == <<"A", "B", "C", "D", "E", "F", "G", "H", "I", "J", "K", "L", "M",
               "N", "O", "P", "Q", "R", "S", "T", "U", "V", "W", "X", "Y", "Z">>
LowerCase == <<"a", "b", "c", "d", "e", "f", "g", "h", "i", "j", "k", "l", "m",
               "n", "o", "p", "q", "r", "s", "t", "u", "v", "w", "x", "y", "z">>

\* String.prototype.toLowerCase
toLowerCase(s) ==
  [i \in 1..Len(s) |->
     IF \E k \in 1..26 : UpperCase[k] = s[i]
     THEN LowerCase[CHOOSE k \in 1..26 : UpperCase[k] = s[i]]
     ELSE s[i]]

\* String.prototype.includes
includes(s, sub) ==
  \E i \in 0..(Len(s) - Len(sub)) : SubSeq(s, i + 1, i + Len(sub)) = sub

\* ----------------------------------------------------- the files one picks
\* A File: the type the browser declares for it, the format of its bytes,
\* its pixel size and its bytes in base64.
Files == {"a.png", "b.jpg", "c.gif", "d.png"}

FileType(f) ==
  CASE f = "a.png" -> <<"i", "m", "a", "g", "e", "/", "p", "n", "g">>
    [] f = "b.jpg" -> <<"i", "m", "a", "g", "e", "/", "j", "p", "e", "g">>
    [] f = "c.gif" -> <<>>
    [] f = "d.png" -> <<"i", "m", "a", "g", "e", "/", "p", "n", "g">>
    [] OTHER -> <<>>

FileFormat(f) ==
  CASE f = "a.png" -> "png"
    [] f = "b.jpg" -> "jpeg"
    [] f = "c.gif" -> "gif"
    [] f = "d.png" -> "png"
    [] OTHER -> "none"

FileWidth(f) ==
  CASE f = "a.png" -> 96 [] f = "b.jpg" -> 480 [] f = "c.gif" -> 96 [] f = "d.png" -> 48
    [] OTHER -> 1

FileHeight(f) ==
  CASE f = "a.png" -> 48 [] f = "b.jpg" -> 960 [] f = "c.gif" -> 96 [] f = "d.png" -> 48
    [] OTHER -> 1

FileBase64(f) ==
  CASE f = "a.png" -> <<"i", "V", "B", "O", "R", "w">>
    [] f = "b.jpg" -> <<"/", "9", "j", "/", "4", "A">>
    [] f = "c.gif" -> <<"R", "0", "l", "G", "O", "D">>
    [] f = "d.png" -> <<"i", "V", "B", "J", "p", "G">>
    [] OTHER -> <<>>


\* ======================================================================
\*  State
\* ======================================================================
VARIABLES
  \* --- label_sheet_builder_3_x_11_react_preview.jsx
  settings,     \* useState(defaultSettings)
  cellImages,   \* useState(Array(rows * cols).fill(null)): flat, row-major
  nextUrl,      \* number of object URLs created so far (each one is fresh)
  revoked,      \* revoked[u]: how many times URL.revokeObjectURL got URL u
  pdf,          \* the downloadPdf call in flight: its closure and its position
  printed,      \* what the last printPage wrote into its window
  \* --- src/App.jsx
  rows, cols,   \* useState(11), useState(3)
  grid,         \* useState(...): rows of cells, each null or a data URL
  appSettings,  \* useState({pageWidth: ...})
  readers,      \* the FileReaders created so far, in creation order
  doc           \* the jsPDF document of the last generatePDF

sheetVars == <<settings, cellImages, nextUrl, revoked, pdf, printed>>
appVars == <<rows, cols, grid, appSettings, readers, doc>>
vars == <<settings, cellImages, nextUrl, revoked, pdf, printed,
          rows, cols, grid, appSettings, readers, doc>>

\* ======================================================================
\*  label_sheet_builder_3_x_11_react_preview.jsx
\* ======================================================================

\* 1 mm = 2.8346 pt.  The source writes 72/25.4 to ten decimals; the model
\* keeps the fraction 360/127 it is rounded from.
MM_TO_PT == Q(360, 127)

mmToPt(mm) == QMul(mm, MM_TO_PT)

PAGE_PRESETS ==
  [A4 |-> [width |-> N(210), height |-> N(297)],
   Letter |-> [width |-> Q(2159, 10), height |-> Q(2794, 10)]]

\* defaultSettings, on a 2 x 2 sheet instead of 11 x 3 (see the header)
defaultSettings ==
  [cols |-> 2, rows |-> 2, pagePreset |-> "A4",
   pageWidthMm |-> PAGE_PRESETS.A4.width,
   pageHeightMm |-> PAGE_PRESETS.A4.height,
   offsetXmm |-> N(8), offsetYmm |-> N(12),
   gutterXmm |-> N(3), gutterYmm |-> N(3)]

\* Array(n).fill(null)
NullArray(n) == [i \in 1..n |-> NullItem]

\* arr[idx] of a JS array (0-based; undefined, modelled as null, past the end)
ItemAt(arr, idx) == IF idx >= 0 /\ idx < Len(arr) THEN arr[idx + 1] ELSE NullItem

\* the effect on [totalCells]: copy the first min(prev.length, n) entries
resizeEffect(prev, totalCells) ==
  [i \in 1..totalCells |-> IF i <= Len(prev) THEN prev[i] ELSE NullItem]

\* geometry with one margin instead of two taken off the page
geometryOneMargin(s) ==
  LET w == s.pageWidthMm
      h == s.pageHeightMm
      gridWidth == QSub(QSub(w, s.offsetXmm), QMul(N(s.cols - 1), s.gutterXmm))
      gridHeight == QSub(QSub(h, s.offsetYmm), QMul(N(s.rows - 1), s.gutterYmm))
  IN  [pageMm |-> [w |-> w, h |-> h],
       cellMm |-> [w |-> QDiv(gridWidth, N(s.cols)), h |-> QDiv(gridHeight, N(s.rows))]]

\* useMemo geometry
geometry(s) ==
  LET w == s.pageWidthMm
      h == s.pageHeightMm
      gridWidth == QSub(QSub(w, QMul(N(2), s.offsetXmm)),
                        QMul(N(s.cols - 1), s.gutterXmm))
      gridHeight == QSub(QSub(h, QMul(N(2), s.offsetYmm)),
                         QMul(N(s.rows - 1), s.gutterYmm))
      cellWidth == QDiv(gridWidth, N(s.cols))
      cellHeight == QDiv(gridHeight, N(s.rows))
  IN  [pageMm |-> [w |-> w, h |-> h], cellMm |-> [w |-> cellWidth, h |-> cellHeight]]

\* xMm and yMmTop of cell (r, c), as downloadPdf and printPage compute them
\* from the cell size cellMm of geometry
xMm(s, cellMm, c) == QAdd(s.offsetXmm, QMul(N(c), QAdd(cellMm.w, s.gutterXmm)))
yMmTop(s, cellMm, r) == QAdd(s.offsetYmm, QMul(N(r), QAdd(cellMm.h, s.gutterYmm)))

NumericKeys == {"cols", "rows", "pageWidthMm", "pageHeightMm",
                "offsetXmm", "offsetYmm", "gutterXmm", "gutterYmm"}

\* handleSettingNumber(key)(e), followed by the effect on [totalCells].
\* val is Number(e.target.value), which is never NaN for a number input.
handleSettingNumber(key, val) ==
  LET s1 == [settings EXCEPT ![key] = val]
  IN  /\ s1.rows * s1.cols <= MaxCells
      /\ settings' = s1
      /\ cellImages' =
           IF s1.rows * s1.cols # settings.rows * settings.cols
           THEN resizeEffect(cellImages, s1.rows * s1.cols)
           ELSE cellImages
      /\ UNCHANGED <<nextUrl, revoked, pdf, printed>>
      /\ UNCHANGED appVars

\* handlePresetChange(e)
handlePresetChange(preset) ==
  /\ settings' =
       IF preset = "Custom"
       THEN [settings EXCEPT !.pagePreset = preset]
       ELSE [settings EXCEPT !.pagePreset = preset,
                             !.pageWidthMm = PAGE_PRESETS[preset].width,
                             !.pageHeightMm = PAGE_PRESETS[preset].height]
  /\ UNCHANGED <<cellImages, nextUrl, revoked, pdf, printed>>
  /\ UNCHANGED appVars

\* pickLocalFileForCell(index) and then onLocalFileChosen(e) with the file
\* the user chose: targetIndexRef.current is index when the change event
\* arrives, so the ref itself is not kept as state.
onLocalFileChosen(index, file) ==
  /\ nextUrl < MaxUrls
  /\ index \in 0..(settings.rows * settings.cols - 1)
  /\ LET objectUrl == nextUrl + 1
     IN  /\ nextUrl' = objectUrl
         /\ cellImages' =
              [i \in 1..(IF index < Len(cellImages) THEN Len(cellImages) ELSE index + 1) |->
                 IF i = index + 1 THEN [file |-> file, url |-> objectUrl]
                 ELSE ItemAt(cellImages, i - 1)]
  /\ UNCHANGED <<settings, revoked, pdf, printed>>
  /\ UNCHANGED appVars

\* clearCell(index): the button exists only on a cell that holds an item
clearCell(index) ==
  /\ index \in 0..(settings.rows * settings.cols - 1)
  /\ ItemAt(cellImages, index) # NullItem
  /\ revoked' = [revoked EXCEPT ![ItemAt(cellImages, index).url] = @ + 1]
  /\ cellImages' = [cellImages EXCEPT ![index + 1] = NullItem]
  /\ UNCHANGED <<settings, nextUrl, pdf, printed>>
  /\ UNCHANGED appVars


\* ------------------------------------------------------------ downloadPdf
\* getEmbed: which pdf-lib call embeds the file
getEmbed(file) ==
  IF includes(FileType(file), <<"p", "n", "g">>) THEN "embedPng" ELSE "embedJpg"

\* pdfDoc.embedPng / embedJpg resolve only for bytes of their own format
embedResolves(file) ==
  \/ getEmbed(file) = "embedPng" /\ FileFormat(file) = "png"
  \/ getEmbed(file) = "embedJpg" /\ FileFormat(file) = "jpeg"

\* drawRectangle with the top-down yMmTop passed as y, the flip left out
drawRectangleUnflipped(s, idx) ==
  LET r == idx \div s.cols
      c == idx % s.cols
      cellMm == geometry(s).cellMm
  IN  [op |-> "rect", idx |-> idx, file |-> Null, method |-> Null,
       x |-> mmToPt(xMm(s, cellMm, c)), y |-> mmToPt(yMmTop(s, cellMm, r)),
       width |-> mmToPt(cellMm.w), height |-> mmToPt(cellMm.h)]

\* page.drawRectangle of cell idx, drawn by a call that closed over s (idx
\* is not an argument of the call: it names the cell the call was made for)
drawRectangle(s, idx) ==
  LET r == idx \div s.cols
      c == idx % s.cols
      cellMm == geometry(s).cellMm
      yMmFromBottom == QSub(QSub(s.pageHeightMm, yMmTop(s, cellMm, r)), cellMm.h)
  IN  [op |-> "rect", idx |-> idx, file |-> Null, method |-> Null,
       x |-> mmToPt(xMm(s, cellMm, c)), y |-> mmToPt(yMmFromBottom),
       width |-> mmToPt(cellMm.w), height |-> mmToPt(cellMm.h)]

\* the fit of an image of imgWpt x imgHpt into the rectangle rect
fitScale(rect, imgWpt, imgHpt) ==
  QMin(QDiv(rect.width, N(imgWpt)), QDiv(rect.height, N(imgHpt)))

\* page.drawImage of an imgWpt x imgHpt image at scale, centred in rect
centredImage(rect, file, imgWpt, imgHpt, scale) ==
  [op |-> "image", idx |-> rect.idx, file |-> file, method |-> getEmbed(file),
   x |-> QAdd(rect.x, QDiv(QSub(rect.width, QMul(N(imgWpt), scale)), N(2))),
   y |-> QAdd(rect.y, QDiv(QSub(rect.height, QMul(N(imgHpt), scale)), N(2))),
   width |-> QMul(N(imgWpt), scale), height |-> QMul(N(imgHpt), scale)]

fitImage(rect, file) ==
  centredImage(rect, file, FileWidth(file), FileHeight(file),
               fitScale(rect, FileWidth(file), FileHeight(file)))

\* page.drawImage of the embedded file into cell idx
drawImage(s, idx, file) == fitImage(drawRectangle(s, idx), file)

\* the item of cell idx read from the current state instead of the closure
pdfItemLive(idx) == ItemAt(cellImages, idx)

\* the item of cell idx that the running downloadPdf reads: cellImages is a
\* const of the render that created the closure
pdfItem(idx) == ItemAt(pdf.cellImages, idx)

\* the for loops from cell idx on, up to the next await: the embed of a file
\* that is not in embedCache, or pdfDoc.save()
RECURSIVE pdfLoop(_, _, _)
pdfLoop(idx, drawn, embedCache) ==
  IF idx >= pdf.settings.rows * pdf.settings.cols
  THEN [pdf EXCEPT !.pc = "save", !.idx = idx, !.drawn = drawn, !.embedCache = embedCache]
  ELSE LET item == pdfItem(idx)
           d1 == Append(drawn, drawRectangle(pdf.settings, idx))
       IN  IF item.file # Null
           THEN IF item.file \in embedCache
                THEN pdfLoop(idx + 1, Append(d1, drawImage(pdf.settings, idx, item.file)),
                             embedCache)
                ELSE [pdf EXCEPT !.pc = "embed", !.idx = idx, !.drawn = d1,
                                 !.embedCache = embedCache]
           ELSE pdfLoop(idx + 1, d1, embedCache)

pdfIdle ==
  [pc |-> "idle", settings |-> defaultSettings, cellImages |-> <<>>,
   idx |-> 0, drawn |-> <<>>, embedCache |-> {}]

\* click on "Download PDF": the call runs up to await PDFDocument.create().
\* One call at a time is modelled.
downloadPdf ==
  /\ pdf.pc \in {"idle", "done", "rejected"}
  /\ pdf' = [pc |-> "create", settings |-> settings, cellImages |-> cellImages,
             idx |-> 0, drawn |-> <<>>, embedCache |-> {}]
  /\ UNCHANGED <<settings, cellImages, nextUrl, revoked, printed>>
  /\ UNCHANGED appVars

\* PDFDocument.create() resolves: addPage, then the loops
pdfCreated ==
  /\ pdf.pc = "create"
  /\ pdf' = pdfLoop(0, <<>>, {})
  /\ UNCHANGED <<settings, cellImages, nextUrl, revoked, printed>>
  /\ UNCHANGED appVars

\* await getEmbed(item.file) resolves (file.arrayBuffer(), then the embed)
pdfEmbedded ==
  /\ pdf.pc = "embed"
  /\ LET file == pdfItem(pdf.idx).file
     IN  /\ embedResolves(file)
         /\ pdf' = pdfLoop(pdf.idx + 1,
                           Append(pdf.drawn, drawImage(pdf.settings, pdf.idx, file)),
                           pdf.embedCache \cup {file})
  /\ UNCHANGED <<settings, cellImages, nextUrl, revoked, printed>>
  /\ UNCHANGED appVars

\* await getEmbed(item.file) rejects: nothing catches it, downloadPdf rejects
pdfEmbedRejected ==
  /\ pdf.pc = "embed"
  /\ ~embedResolves(pdfItem(pdf.idx).file)
  /\ pdf' = [pdf EXCEPT !.pc = "rejected"]
  /\ UNCHANGED <<settings, cellImages, nextUrl, revoked, printed>>
  /\ UNCHANGED appVars

\* pdfDoc.save() resolves: the blob is downloaded
pdfSaved ==
  /\ pdf.pc = "save"
  /\ pdf' = [pdf EXCEPT !.pc = "done"]
  /\ UNCHANGED <<settings, cellImages, nextUrl, revoked, printed>>
  /\ UNCHANGED appVars


\* -------------------------------------------------------------- printPage
\* the <div class="cell"> of cell idx, with its <img> when the item has a url
cellHtml(s, items, idx) ==
  LET r == idx \div s.cols
      c == idx % s.cols
      cellMm == geometry(s).cellMm
  IN  [left |-> xMm(s, cellMm, c), top |-> yMmTop(s, cellMm, r),
       width |-> cellMm.w, height |-> cellMm.h,
       img |-> ItemAt(items, idx)]

\* click on "Print": the page written into the new window
printPage ==
  /\ printed' = [i \in 1..(settings.rows * settings.cols) |->
                   cellHtml(settings, cellImages, i - 1)]
  /\ UNCHANGED <<settings, cellImages, nextUrl, revoked, pdf>>
  /\ UNCHANGED appVars

\* What the style sheet of printPage makes of one cell: .cell is a
\* border-box with a 0.3mm border that centres its content, and img has
\* max-width: 100%; max-height: 100%, so an image is shrunk to the content
\* box when it is larger and keeps its natural size (96 CSS px per inch)
\* when it is smaller.  The box of the image, in mm from the page's top left.
PxToMm(px) == QMul(N(px), Q(127, 480))
cssImgBox(cell, file) ==
  LET border == Q(3, 10)
      boxW == QSub(cell.width, QMul(N(2), border))
      boxH == QSub(cell.height, QMul(N(2), border))
      natW == PxToMm(FileWidth(file))
      natH == PxToMm(FileHeight(file))
      scale == QMin(N(1), QMin(QDiv(boxW, natW), QDiv(boxH, natH)))
      w == QMul(natW, scale)
      h == QMul(natH, scale)
  IN  [x |-> QAdd(QAdd(cell.left, border), QDiv(QSub(boxW, w), N(2))),
       y |-> QAdd(QAdd(cell.top, border), QDiv(QSub(boxH, h), N(2))),
       width |-> w, height |-> h]

\* ======================================================================
\*  src/App.jsx
\* ======================================================================
appDefaultSettings ==
  [pageWidth |-> N(210), pageHeight |-> N(297), offsetX |-> N(10), offsetY |-> N(10),
   rowSpacing |-> N(2), colSpacing |-> N(2), cellWidth |-> N(51), cellHeight |-> N(21)]

AppKeys == {"pageWidth", "pageHeight", "offsetX", "offsetY",
            "rowSpacing", "colSpacing", "cellWidth", "cellHeight"}

\* reader.result of readAsDataURL(file); a file without a type is read as
\* application/octet-stream
ApplicationOctetStream ==
  <<"a", "p", "p", "l", "i", "c", "a", "t", "i", "o", "n", "/",
    "o", "c", "t", "e", "t", "-", "s", "t", "r", "e", "a", "m">>
readAsDataURL(file) ==
  <<"d", "a", "t", "a", ":">>
    \o (IF FileType(file) = <<>> THEN ApplicationOctetStream ELSE FileType(file))
    \o <<";", "b", "a", "s", "e", "6", "4", ",">>
    \o FileBase64(file)

\* grid[r][c] of the nested grid g (0-based); null when g has no such cell
GridAt(g, r, c) ==
  IF r >= 0 /\ r < Len(g) /\ c >= 0 /\ c < Len(g[r + 1]) THEN g[r + 1][c + 1] ELSE Null

\* the effect on [rows, cols]
appResizeEffect(g, newRows, newCols) ==
  [r \in 1..newRows |-> [c \in 1..newCols |-> GridAt(g, r - 1, c - 1)]]

\* setRows(val) of the Rows input, then the effect
setRows(val) ==
  /\ val >= 1 /\ val * cols <= MaxCells /\ val # rows
  /\ rows' = val
  /\ grid' = appResizeEffect(grid, val, cols)
  /\ UNCHANGED <<cols, appSettings, readers, doc>>
  /\ UNCHANGED sheetVars

\* setCols(val) of the Columns input, then the effect
setCols(val) ==
  /\ val >= 1 /\ rows * val <= MaxCells /\ val # cols
  /\ cols' = val
  /\ grid' = appResizeEffect(grid, rows, val)
  /\ UNCHANGED <<rows, appSettings, readers, doc>>
  /\ UNCHANGED sheetVars

\* setSettings({...settings, [key]: val})
setSettings(key, val) ==
  /\ appSettings' = [appSettings EXCEPT ![key] = val]
  /\ UNCHANGED <<rows, cols, grid, readers, doc>>
  /\ UNCHANGED sheetVars

\* handleFileChange(row, col, e): the reader is created and starts reading;
\* its onload closes over the grid of the render that attached the handler
handleFileChange(row, col, file) ==
  /\ Len(readers) < MaxLoads
  /\ row \in 0..(Len(grid) - 1)
  /\ col \in 0..(Len(grid[row + 1]) - 1)
  /\ readers' = Append(readers, [row |-> row, col |-> col, file |-> file,
                                 grid |-> grid, readyState |-> "LOADING"])
  /\ UNCHANGED <<rows, cols, grid, appSettings, doc>>
  /\ UNCHANGED sheetVars

\* the grid that reader.onload hands to setGrid.  A cell holds the file
\* whose data URL (readAsDataURL) it is.
onloadGrid(rd) ==
  [ri \in 1..Len(rd.grid) |->
     [ci \in 1..Len(rd.grid[ri]) |->
        IF ri - 1 = rd.row /\ ci - 1 = rd.col THEN rd.file ELSE rd.grid[ri][ci]]]

\* reader.onload of the k-th reader
onload(k) ==
  /\ k \in 1..Len(readers)
  /\ readers[k].readyState = "LOADING"
  /\ grid' = onloadGrid(readers[k])
  /\ readers' = [readers EXCEPT ![k].readyState = "DONE"]
  /\ UNCHANGED <<rows, cols, appSettings, doc>>
  /\ UNCHANGED sheetVars

\* the format generatePDF passes to doc.addImage for the data URL img
addImageFormat(img) ==
  IF \/ includes(toLowerCase(img), <<"j", "p", "e", "g">>)
     \/ includes(toLowerCase(img), <<"j", "p", "g">>)
  THEN "JPEG" ELSE "PNG"

\* the doc.addImage call of cell (r, c) holding the data URL of file
addImage(file, r, c) ==
  LET cellW == appSettings.cellWidth
      cellH == appSettings.cellHeight
  IN  [r |-> r, c |-> c, file |-> file, format |-> addImageFormat(readAsDataURL(file)),
       x |-> QAdd(appSettings.offsetX, QMul(N(c), QAdd(cellW, appSettings.colSpacing))),
       y |-> QAdd(appSettings.offsetY, QMul(N(r), QAdd(cellH, appSettings.rowSpacing))),
       width |-> cellW, height |-> cellH]

\* grid.forEach((row, r) => row.forEach((img, c) => ...)) from (r, c) on
RECURSIVE generatePDF(_, _, _)
generatePDF(r, c, calls) ==
  IF r >= Len(grid) THEN calls
  ELSE IF c >= Len(grid[r + 1]) THEN generatePDF(r + 1, 0, calls)
  ELSE generatePDF(r, c + 1,
         IF GridAt(grid, r, c) # Null
         THEN Append(calls, addImage(GridAt(grid, r, c), r, c)) ELSE calls)

\* handleDownloadPDF (handlePrintPDF builds the same document)
handleDownloadPDF ==
  /\ doc' = [saved |-> TRUE, calls |-> generatePDF(0, 0, <<>>)]
  /\ UNCHANGED <<rows, cols, grid, appSettings, readers>>
  /\ UNCHANGED sheetVars

\* ======================================================================
\*  Specifications
\* ======================================================================
Init ==
  /\ settings = defaultSettings
  /\ cellImages = NullArray(defaultSettings.rows * defaultSettings.cols)
  /\ nextUrl = 0
  /\ revoked = [u \in 1..MaxUrls |-> 0]
  /\ pdf = pdfIdle
  /\ printed = <<>>
  /\ rows = 2
  /\ cols = 2
  /\ grid = [r \in 1..2 |-> [c \in 1..2 |-> Null]]
  /\ appSettings = appDefaultSettings
  /\ readers = <<>>
  /\ doc = [saved |-> FALSE, calls |-> <<>>]

\* ------------------------------------------------- SpecStore: the cell store
\* the values typed into the number inputs of the sheet
SettingInputs(key) ==
  CASE key \in {"rows", "cols"} -> 1..MaxCells
    [] key = "offsetXmm" -> {N(8), N(120)}
    [] OTHER -> {settings[key]}

SheetFiles == {"a.png", "b.jpg", "c.gif"}

StoreNext ==
  \/ \E key \in NumericKeys : \E val \in SettingInputs(key) : handleSettingNumber(key, val)
  \/ \E preset \in {"A4", "Letter", "Custom"} : handlePresetChange(preset)
  \/ \E index \in 0..(MaxCells - 1) : \E file \in SheetFiles : onLocalFileChosen(index, file)
  \/ \E index \in 0..(MaxCells - 1) : clearCell(index)

SpecStore == Init /\ [][StoreNext]_vars

\* ---------------------- SpecPdf: downloadPdf while the user goes on editing
\* The user edits the first two cells and the shape of the sheet.
PdfNext ==
  \/ \E key \in {"rows", "cols"} : \E val \in {1, 2} : handleSettingNumber(key, val)
  \/ \E index \in {0, 1} : \E file \in {"a.png", "c.gif"} : onLocalFileChosen(index, file)
  \/ \E index \in {0, 1} : clearCell(index)
  \/ downloadPdf
  \/ pdfCreated
  \/ pdfEmbedded
  \/ pdfEmbedRejected
  \/ pdfSaved

SpecPdf == Init /\ [][PdfNext]_vars


\* ----------- SpecRender: the two renderers of one sheet, one cell edited
RenderNext ==
  \/ \E val \in {N(8), N(120)} : handleSettingNumber("offsetXmm", val)
  \/ \E file \in {"a.png", "b.jpg", "c.gif"} : onLocalFileChosen(0, file)
  \/ printPage
  \/ downloadPdf
  \/ pdfCreated
  \/ pdfEmbedded
  \/ pdfEmbedRejected
  \/ pdfSaved

SpecRender == Init /\ [][RenderNext]_vars

\* ------------------------------------------------------ SpecApp: App.jsx
AppFiles == {"a.png", "c.gif", "d.png"}

AppNext ==
  \/ \E val \in {1, 2} : setRows(val)
  \/ \E val \in {1, 2} : setCols(val)
  \/ \E row \in {0, 1}, col \in {0, 1} : \E file \in AppFiles :
       handleFileChange(row, col, file)
  \/ \E k \in 1..MaxLoads : onload(k)
  \/ handleDownloadPDF

SpecApp == Init /\ [][AppNext]_vars

\* --------------------------- SpecGeom: the settings of both programs
\* The page size is changed through the presets.
GeomInputs(key) ==
  CASE key \in {"rows", "cols"} -> 1..MaxCells
    [] key = "offsetXmm" -> {N(8), N(120)}
    [] key = "gutterXmm" -> {N(3), N(0)}
    [] key = "gutterYmm" -> {N(3), N(0)}
    [] OTHER -> {}

AppInputs(key) ==
  CASE key = "cellWidth" -> {N(51), N(100)}
    [] key = "colSpacing" -> {N(2), N(0)}
    [] OTHER -> {}

GeomNext ==
  \/ \E key \in NumericKeys : \E val \in GeomInputs(key) : handleSettingNumber(key, val)
  \/ \E preset \in {"A4", "Letter", "Custom"} : handlePresetChange(preset)
  \/ \E val \in 1..MaxCells : setRows(val)
  \/ \E val \in 1..MaxCells : setCols(val)
  \/ \E key \in AppKeys : \E val \in AppInputs(key) : setSettings(key, val)

SpecGeom == Init /\ [][GeomNext]_vars

\* ======================================================================
\*  Claims
\* ======================================================================

\* the cell (r, c) of the flat array arr of a sheet with nCols columns
CellOf(arr, nCols, r, c) == ItemAt(arr, r * nCols + c)

\* C1: when the row count or the column count changes, every cell (r, c)
\* inside both the old and the new grid holds afterwards what it held before
\* under the same (r, c), in the flat cellImages (index r * cols + c) and in
\* the nested grid of App.jsx.
C1_ResizeKeepsAddresses ==
  [][/\ (settings'.rows # settings.rows \/ settings'.cols # settings.cols) =>
          \A r \in 0..(MaxCells - 1), c \in 0..(MaxCells - 1) :
            (/\ r < settings.rows /\ r < settings'.rows
             /\ c < settings.cols /\ c < settings'.cols)
            => CellOf(cellImages', settings'.cols, r, c)
                 = CellOf(cellImages, settings.cols, r, c)
     /\ (rows' # rows \/ cols' # cols) =>
          \A r \in 0..(MaxCells - 1), c \in 0..(MaxCells - 1) :
            (r < rows /\ r < rows' /\ c < cols /\ c < cols')
            => GridAt(grid', r, c) = GridAt(grid, r, c)]_vars


\* a configuration is valid when its margins and gutters are >= 0 and its
\* derived cell size is positive
ValidGeometry(s) ==
  /\ s.rows >= 1 /\ s.cols >= 1
  /\ QLe(N(0), s.offsetXmm) /\ QLe(N(0), s.offsetYmm)
  /\ QLe(N(0), s.gutterXmm) /\ QLe(N(0), s.gutterYmm)
  /\ QPos(geometry(s).cellMm.w) /\ QPos(geometry(s).cellMm.h)

\* C6: a configuration whose derived cell width or height is <= 0 is
\* rejected before rendering: the PDF render makes no draw call for it and
\* the print render writes no cell markup for it.
C6_InvalidGeometryDrawsNothing ==
  /\ (pdf.pc # "idle" /\ ~ValidGeometry(pdf.settings)) => pdf.drawn = <<>>
  /\ \A i \in 1..Len(printed) : QPos(printed[i].width) /\ QPos(printed[i].height)

\* the draw calls of pdf.drawn of one kind
DrawnOf(op) == SelectSeq(pdf.drawn, LAMBDA d : d.op = op)

\* C7: when embedding the image of one cell fails, the render is not
\* aborted: it ends completed and the border of every cell is drawn.
C7_RenderSurvivesCellFailure ==
  pdf.pc \in {"done", "rejected"} =>
    /\ pdf.pc = "done"
    /\ Len(DrawnOf("rect")) = pdf.settings.rows * pdf.settings.cols

\* what a render draws of the sheet s with the cell contents items, cell idx on
RECURSIVE SnapshotDraws(_, _, _)
SnapshotDraws(s, items, idx) ==
  IF idx >= s.rows * s.cols THEN <<>>
  ELSE <<drawRectangle(s, idx)>>
         \o (IF ItemAt(items, idx).file # Null
             THEN <<drawImage(s, idx, ItemAt(items, idx).file)>> ELSE <<>>)
         \o SnapshotDraws(s, items, idx + 1)

IsPrefix(a, b) == Len(a) <= Len(b) /\ SubSeq(b, 1, Len(a)) = a

\* C8: a downloadPdf in progress draws exactly the cell contents, grid
\* dimensions and geometry that were current when it started (pdf.settings
\* and pdf.cellImages are the state at the click): whatever is set, cleared
\* or resized while it is suspended, what it has drawn so far is the start of
\* the drawing of that state, and all of it once it has saved.
C8_RenderDrawsItsSnapshot ==
  LET all == SnapshotDraws(pdf.settings, pdf.cellImages, 0)
  IN  /\ IsPrefix(pdf.drawn, all)
      /\ pdf.pc \in {"save", "done"} => pdf.drawn = all

\* C8 witness: a render that is past its last embed, with an image drawn,
\* while the sheet has since got other contents and another shape
C8_Witness ==
  /\ pdf.pc = "save"
  /\ Len(DrawnOf("image")) > 0
  /\ cellImages # pdf.cellImages
  /\ settings.rows * settings.cols # pdf.settings.rows * pdf.settings.cols

\* the box of a PDF draw call in mm from the top left of the page
PtToMm(pt) == QDiv(pt, MM_TO_PT)
PdfBoxMm(s, d) ==
  [x |-> PtToMm(d.x),
   y |-> QSub(s.pageHeightMm, PtToMm(QAdd(d.y, d.height))),
   width |-> PtToMm(d.width), height |-> PtToMm(d.height)]

\* C9: for the same configuration and the same cell contents, printPage and
\* downloadPdf use the same bounds for every cell and place every image in
\* the same box (in mm, up to the Y flip of the PDF).
C9_PrintAndPdfAgree ==
  (/\ pdf.pc = "done"
   /\ Len(printed) = pdf.settings.rows * pdf.settings.cols
   /\ \A i \in 1..Len(printed) :
        printed[i] = cellHtml(pdf.settings, pdf.cellImages, i - 1))
  => \A k \in 1..Len(pdf.drawn) :
       LET d == pdf.drawn[k]
           cell == printed[d.idx + 1]
       IN  IF d.op = "rect"
           THEN PdfBoxMm(pdf.settings, d)
                  = [x |-> cell.left, y |-> cell.top,
                     width |-> cell.width, height |-> cell.height]
           ELSE PdfBoxMm(pdf.settings, d) = cssImgBox(cell, d.file)


\* the k-th reader fires its onload in this step
Completes(k) ==
  /\ k <= Len(readers)
  /\ readers[k].readyState = "LOADING"
  /\ readers'[k].readyState = "DONE"

\* C2: a completing load is applied only if it is the most recently started
\* load of its cell: when load a completes after a load b that was started
\* later for the same cell has completed, the cell keeps what it holds.
C2_SupersededLoadNeverWrites ==
  [][\A a \in 1..MaxLoads, b \in 1..MaxLoads :
       (/\ a < b /\ b <= Len(readers)
        /\ readers[a].row = readers[b].row /\ readers[a].col = readers[b].col
        /\ readers[b].readyState = "DONE"
        /\ Completes(a))
       => GridAt(grid', readers[a].row, readers[a].col)
            = GridAt(grid, readers[a].row, readers[a].col)]_vars

\* C3: a completing load for cell (r, c) writes only slot (r, c): every
\* other slot keeps the content it held immediately before the completion.
C3_LoadWritesOnlyItsSlot ==
  [][\A k \in 1..MaxLoads :
       Completes(k) =>
         \A r \in 0..(MaxCells - 1), c \in 0..(MaxCells - 1) :
           (r # readers[k].row \/ c # readers[k].col)
           => GridAt(grid', r, c) = GridAt(grid, r, c)]_vars

\* C5: the size at which the PDF renderer draws an image does not exceed
\* the cell's width or height, and drawWidth : drawHeight = imgW : imgH.
C5_FitKeepsAspectRatio ==
  \A k \in 1..Len(doc.calls) :
    LET call == doc.calls[k]
    IN  /\ QLe(call.width, appSettings.cellWidth)
        /\ QLe(call.height, appSettings.cellHeight)
        /\ QMul(call.width, N(FileHeight(call.file)))
             = QMul(call.height, N(FileWidth(call.file)))

\* the embedding the declared type of a file asks for
FormatOfType(type) ==
  IF type = <<"i", "m", "a", "g", "e", "/", "p", "n", "g">> THEN "PNG" ELSE "JPEG"

\* C10: the PDF renderer chooses the embedding of a cell from the declared
\* mimeType alone: PNG for image/png, JPEG for image/jpeg, JPEG when the
\* type is undetermined; the image bytes do not enter the choice.
C10_FormatFollowsMimeType ==
  /\ \A k \in 1..Len(doc.calls) :
       doc.calls[k].format = FormatOfType(FileType(doc.calls[k].file))
  /\ \A k \in 1..Len(pdf.drawn) :
       pdf.drawn[k].op = "image" =>
         pdf.drawn[k].method
           = (IF FormatOfType(FileType(pdf.drawn[k].file)) = "PNG"
              THEN "embedPng" ELSE "embedJpg")


\* two boxes [x, y, width, height] do not overlap
Disjoint(a, b) ==
  \/ QLe(QAdd(a.x, a.width), b.x) \/ QLe(QAdd(b.x, b.width), a.x)
  \/ QLe(QAdd(a.y, a.height), b.y) \/ QLe(QAdd(b.y, b.height), a.y)

\* the box is inside the page minus the margins
InsidePage(a, pageW, pageH, marginX, marginY) ==
  /\ QLe(marginX, a.x) /\ QLe(QAdd(a.x, a.width), QSub(pageW, marginX))
  /\ QLe(marginY, a.y) /\ QLe(QAdd(a.y, a.height), QSub(pageH, marginY))

\* the cell boxes of the sheet, as printPage writes them and as downloadPdf
\* draws them
PrintBoxes(s) ==
  [i \in 1..(s.rows * s.cols) |->
     LET cell == cellHtml(s, <<>>, i - 1)
     IN  [x |-> cell.left, y |-> cell.top, width |-> cell.width, height |-> cell.height]]
PdfBoxes(s) ==
  LET d == SnapshotDraws(s, <<>>, 0)
  IN  [i \in 1..Len(d) |-> PdfBoxMm(s, d[i])]

\* the cell boxes of App.jsx: where generatePDF puts the image of (r, c)
AppBoxes ==
  [i \in 1..(rows * cols) |->
     LET call == addImage("a.png", (i - 1) \div cols, (i - 1) % cols)
     IN  [x |-> call.x, y |-> call.y, width |-> call.width, height |-> call.height]]

ValidApp ==
  /\ rows >= 1 /\ cols >= 1
  /\ QLe(N(0), appSettings.offsetX) /\ QLe(N(0), appSettings.offsetY)
  /\ QLe(N(0), appSettings.colSpacing) /\ QLe(N(0), appSettings.rowSpacing)
  /\ QPos(appSettings.cellWidth) /\ QPos(appSettings.cellHeight)

\* the part of C4 that is about the sheet: rows * cols boxes, the same for
\* both renderers, of uniform size, at marginX + c * (cellWidth + gutterX)
\* and marginY + r * (cellHeight + gutterY) with the cell size derived from
\* the page, pairwise disjoint and inside the page minus the margins
SheetGeometryOk(s) ==
  LET b == PrintBoxes(s)
      n == s.rows * s.cols
      cellW == QDiv(QSub(QSub(s.pageWidthMm, QMul(N(2), s.offsetXmm)),
                         QMul(N(s.cols - 1), s.gutterXmm)), N(s.cols))
      cellH == QDiv(QSub(QSub(s.pageHeightMm, QMul(N(2), s.offsetYmm)),
                         QMul(N(s.rows - 1), s.gutterYmm)), N(s.rows))
  IN  /\ Len(b) = n
      /\ PdfBoxes(s) = b
      /\ \A r \in 0..(s.rows - 1), c \in 0..(s.cols - 1) :
           b[r * s.cols + c + 1]
             = [x |-> QAdd(s.offsetXmm, QMul(N(c), QAdd(cellW, s.gutterXmm))),
                y |-> QAdd(s.offsetYmm, QMul(N(r), QAdd(cellH, s.gutterYmm))),
                width |-> cellW, height |-> cellH]
      /\ \A i \in 1..n, j \in 1..n : i # j => Disjoint(b[i], b[j])
      /\ \A i \in 1..n :
           InsidePage(b[i], s.pageWidthMm, s.pageHeightMm, s.offsetXmm, s.offsetYmm)

\* the part that holds of App.jsx, whose cell size is a setting: rows * cols
\* boxes of uniform size at the same positions, pairwise disjoint, not left
\* of or above the margins
AppGeometryOk ==
  LET b == AppBoxes
      n == rows * cols
  IN  /\ Len(b) = n
      /\ \A r \in 0..(rows - 1), c \in 0..(cols - 1) :
           b[r * cols + c + 1]
             = [x |-> QAdd(appSettings.offsetX,
                           QMul(N(c), QAdd(appSettings.cellWidth, appSettings.colSpacing))),
                y |-> QAdd(appSettings.offsetY,
                           QMul(N(r), QAdd(appSettings.cellHeight, appSettings.rowSpacing))),
                width |-> appSettings.cellWidth, height |-> appSettings.cellHeight]
      /\ \A i \in 1..n, j \in 1..n : i # j => Disjoint(b[i], b[j])
      /\ \A i \in 1..n : QLe(appSettings.offsetX, b[i].x) /\ QLe(appSettings.offsetY, b[i].y)

CreatedUrls == 1..nextUrl

\* the object URL u is the url of an item of the store
HeldUrl(u) == \E i \in 1..Len(cellImages) : cellImages[i].url = u

\* C11: every object URL created for an assignment is released exactly
\* once, on the clear of its cell or at teardown: none has been revoked
\* twice, and one that is not revoked yet is still the url of a cell of the
\* store, where a clear or a teardown can find it.
C11_HandlesReleasedOnce ==
  \A u \in CreatedUrls :
    /\ revoked[u] <= 1
    /\ revoked[u] = 0 => HeldUrl(u)

\* C12: the cell store a render reads has exactly rows x columns slots for
\* the current rows and columns, each an image or null, whatever resizes,
\* assignments, load completions and clears came before: cellImages has
\* rows * cols entries, and grid has rows rows of cols cells.
C12_StoreHasGridShape ==
  /\ Len(cellImages) = settings.rows * settings.cols
  /\ Len(grid) = rows
  /\ \A r \in 1..Len(grid) : Len(grid[r]) = cols

\* the draw call d covers a box inside the box of the draw call rect
InsideRect(d, rect) ==
  /\ QLe(rect.x, d.x) /\ QLe(QAdd(d.x, d.width), QAdd(rect.x, rect.width))
  /\ QLe(rect.y, d.y) /\ QLe(QAdd(d.y, d.height), QAdd(rect.y, rect.height))

\* the lower edge, in pt from the bottom of the page, of row r of sheet s
FlippedY(s, r) ==
  LET cellHeight == geometry(s).cellMm.h
      top == QAdd(s.offsetYmm, QMul(N(r), QAdd(cellHeight, s.gutterYmm)))
  IN  QMul(QSub(QSub(s.pageHeightMm, top), cellHeight), MM_TO_PT)

\* C13: downloadPdf draws the rectangle of cell (r, c) with its lower-left
\* corner at y = mmToPt(pageHeightMm - yMmTop - cellHeightMm), yMmTop =
\* marginY + r * (cellHeight + gutterY), the flip applied once: the upper
\* edge of row 0 is marginY below the top of the page, a row of larger r is
\* drawn lower on the page, and every fitted image lies inside the
\* rectangle drawn for its own cell.
C13_FlipAppliedOnce ==
  \A k \in 1..Len(pdf.drawn) :
    LET d == pdf.drawn[k]
        s == pdf.settings
        r == d.idx \div s.cols
    IN  IF d.op = "rect"
        THEN /\ d.y = FlippedY(s, r)
             /\ r = 0 => QAdd(d.y, d.height)
                           = QMul(QSub(s.pageHeightMm, s.offsetYmm), MM_TO_PT)
             /\ \A j \in 1..Len(pdf.drawn) :
                  (pdf.drawn[j].op = "rect" /\ pdf.drawn[j].idx \div s.cols > r)
                    => /\ QLe(QAdd(pdf.drawn[j].y, pdf.drawn[j].height), d.y)
                       /\ pdf.drawn[j].y # d.y
        ELSE /\ k > 1
             /\ pdf.drawn[k - 1].op = "rect" /\ pdf.drawn[k - 1].idx = d.idx
             /\ QPos(d.width) /\ QPos(d.height)
             /\ InsideRect(d, pdf.drawn[k - 1])

\* C13 witness: a saved render of a sheet of two rows that drew the
\* rectangles of both rows and fitted an image into a cell
C13_Witness ==
  /\ pdf.pc = "done"
  /\ pdf.settings.rows = 2
  /\ \E k \in 1..Len(pdf.drawn) :
       pdf.drawn[k].op = "rect" /\ pdf.drawn[k].idx \div pdf.settings.cols = 1
  /\ \E k \in 1..Len(pdf.drawn) : pdf.drawn[k].op = "image"

====
